---- MODULE Spec2Model ----
(***************************************************************************)
(* Log-Analyzer-App: the two implementations of the log parser,            *)
(*   "A" = src/log_parser.py               (regular expressions, re)       *)
(*   "B" = src/ParsingScript/log_parser.py (named templates, parse)        *)
(* Each has parse_log_file (extraction) and suggest_robust_pattern         *)
(* (suggestion).  Text is a sequence of one-character strings; a pattern   *)
(* is the sequence of its lexical tokens.                                  *)
(***************************************************************************)
EXTENDS Integers, Sequences, FiniteSets, TLC

(* ------------------------------ bounds --------------------------------- *)
\* longest input file of an extraction run, in raw lines
MaxFileLines == 3
\* longest catalog of a suggestion run
MaxCatalog == 3
\* longest freely chosen part of a suggestion run's file, in raw lines
MaxSampleFree == 2

(* --------------------------- program constants ------------------------- *)
ROBUST_CHECK_LINES == 5

(* ------------------------------ text ----------------------------------- *)
Whitespace == {" ", "\n"}
Chars == {"a", "b", "S", "\\", " "}
NonSpace == Chars \ Whitespace

Last(s) == s[Len(s)]
Front(s) == SubSeq(s, 1, Len(s) - 1)

RECURSIVE LStrip(_)
LStrip(s) ==
    IF s # <<>> /\ Head(s) \in Whitespace THEN LStrip(Tail(s)) ELSE s

RECURSIVE RStrip(_)
RStrip(s) ==
    IF s # <<>> /\ Last(s) \in Whitespace THEN RStrip(Front(s)) ELSE s

\* str.strip()
Strip(s) == RStrip(LStrip(s))

\* the text of a Python literal, kept as one piece
Lit(str) == <<str>>

(* ------------------------------ dicts ---------------------------------- *)
EmptyDict == [k \in {} |-> <<>>]
Put(d, k, v) == [x \in (DOMAIN d) \cup {k} |-> IF x = k THEN v ELSE d[x]]

(* ------------------------ regular expressions -------------------------- *)
\* a compiled pattern is a sequence of nodes: group open, group close, an
\* atom (a character set) or an assertion ("at": ^, $, \b).  A repeat is
\* kept on the atom, or on both nodes of the group, it applies to: min is
\* the least count, many says whether more than one is allowed, lazy and
\* poss the flavour of the repeat.
OpenNode(g, name) ==
    [k |-> "open", g |-> g, name |-> name, set |-> {}, min |-> 1,
     many |-> FALSE, lazy |-> FALSE, poss |-> FALSE, quant |-> FALSE, at |-> ""]
CloseNode(g) ==
    [k |-> "close", g |-> g, name |-> "", set |-> {}, min |-> 1,
     many |-> FALSE, lazy |-> FALSE, poss |-> FALSE, quant |-> FALSE, at |-> ""]
AtomNode(set) ==
    [k |-> "atom", g |-> 0, name |-> "", set |-> set, min |-> 1,
     many |-> FALSE, lazy |-> FALSE, poss |-> FALSE, quant |-> FALSE, at |-> ""]
AtNode(at) ==
    [k |-> "at", g |-> 0, name |-> "", set |-> {}, min |-> 1,
     many |-> FALSE, lazy |-> FALSE, poss |-> FALSE, quant |-> FALSE, at |-> at]

AltNode ==
    [k |-> "alt", g |-> 0, name |-> "", set |-> {}, min |-> 1,
     many |-> FALSE, lazy |-> FALSE, poss |-> FALSE, quant |-> FALSE, at |-> ""]

ReError == [ok |-> FALSE, nodes |-> <<>>, groups |-> 0]

\* the repeat q ("+", "*", "?") with its suffix ("?" lazy, "+" possessive,
\* "" greedy) on node n
Quantified(n, q, suffix) ==
    [n EXCEPT !.min = IF q = "+" THEN 1 ELSE 0,
              !.many = (q # "?"),
              !.lazy = (suffix = "?"),
              !.poss = (suffix = "+"),
              !.quant = TRUE]

\* a repeat after a group is kept on its open and its close node
QuantGroup(nodes, g, q, suffix) ==
    [i \in 1..Len(nodes) |->
        IF nodes[i].k \in {"open", "close"} /\ nodes[i].g = g
        THEN Quantified(nodes[i], q, suffix) ELSE nodes[i]]

\* every character of a text: those of Chars and the newline
AllChars == Chars \cup {"\n"}

\* the characters of \w
WordChars == {"a", "b", "S"}

\* the nodes of the escape \c; \[^ ] is a literal "[", then ^, " " and "]"
EscapeNodes(c) ==
    CASE c = "S" -> <<AtomNode(NonSpace)>>
      [] c = "s" -> <<AtomNode(Whitespace)>>
      [] c = "b" -> <<AtNode("wordb")>>
      [] c = "a" -> <<AtomNode({})>>            \* the bell character
      [] c = "[^ ]" -> <<AtomNode({"["}), AtNode("bol"), AtomNode({" "}),
                         AtomNode({"]"})>>
      [] OTHER -> <<AtomNode({c})>>

\* the index after the flag letters (a, s) that start at i
RECURSIVE FlagsEnd(_, _)
FlagsEnd(toks, i) ==
    IF i <= Len(toks) /\ toks[i] \in {"a", "s"} THEN FlagsEnd(toks, i + 1) ELSE i

\* groups without a capture are numbered -1, -2, ...
NonCapturing(nodes) ==
    Cardinality({j \in 1..Len(nodes) : nodes[j].k = "open" /\ nodes[j].g < 0})

\* re.compile: the tokens are read left to right.  re.error: an unbalanced
\* parenthesis, a repeat with nothing to repeat (at the start of the pattern,
\* of a group or of a branch, or after an assertion), a repeat of a repeat, a
\* pattern ending in a backslash, an unknown "(?" form, flags "(?as)" after
\* anything but flags.  A "?" or "+" right after a repeat is its suffix.
\* "(?as:" opens a group without a capture, with its flags inside: s lets "."
\* match a newline, a changes nothing for the characters of this development.
\* stack = the open groups, each with the flag to restore at its ")".
RECURSIVE ReParse(_, _, _, _, _, _)
ReParse(toks, i, nodes, stack, ng, dotall) ==
    IF i > Len(toks)
    THEN IF stack # <<>> THEN ReError
         ELSE [ok |-> TRUE, nodes |-> nodes, groups |-> ng]
    ELSE LET t == toks[i] IN
      CASE t = "(" /\ i < Len(toks) /\ toks[i + 1] = "?" ->
             LET j == FlagsEnd(toks, i + 2)
                 s == \E f \in (i + 2)..(j - 1) : toks[f] = "s"
             IN IF j > Len(toks) THEN ReError
                ELSE IF toks[j] = ":"
                THEN LET g == -(NonCapturing(nodes) + 1) IN
                     ReParse(toks, j + 1, Append(nodes, OpenNode(g, "")),
                             Append(stack, [g |-> g, dotall |-> dotall]), ng,
                             dotall \/ s)
                ELSE IF toks[j] = ")" /\ j > i + 2 /\ nodes = <<>> /\ stack = <<>>
                THEN ReParse(toks, j + 1, nodes, stack, ng, dotall \/ s)
                ELSE ReError
        [] t = "(" /\ ~(i < Len(toks) /\ toks[i + 1] = "?") ->
             ReParse(toks, i + 1, Append(nodes, OpenNode(ng + 1, "")),
                     Append(stack, [g |-> ng + 1, dotall |-> dotall]), ng + 1, dotall)
        [] t = ")" ->
             IF stack = <<>> THEN ReError
             ELSE ReParse(toks, i + 1, Append(nodes, CloseNode(Last(stack).g)),
                          Front(stack), ng, Last(stack).dotall)
        [] t = "|" ->
             ReParse(toks, i + 1, Append(nodes, AltNode), stack, ng, dotall)
        [] t \in {"+", "?", "*"} ->
             IF nodes = <<>> \/ Last(nodes).k \in {"open", "at", "alt"}
                \/ Last(nodes).quant
             THEN ReError
             ELSE LET suffix == IF i < Len(toks) /\ toks[i + 1] \in {"?", "+"}
                                THEN toks[i + 1] ELSE ""
                      next == IF suffix = "" THEN i + 1 ELSE i + 2
                  IN IF Last(nodes).k = "atom"
                     THEN ReParse(toks, next,
                                  Append(Front(nodes), Quantified(Last(nodes), t, suffix)),
                                  stack, ng, dotall)
                     ELSE ReParse(toks, next,
                                  QuantGroup(nodes, Last(nodes).g, t, suffix),
                                  stack, ng, dotall)
        [] t = "\\" ->
             IF i = Len(toks) THEN ReError
             ELSE ReParse(toks, i + 2, nodes \o EscapeNodes(toks[i + 1]), stack, ng,
                          dotall)
        [] t = "[^ ]" ->
             ReParse(toks, i + 1, Append(nodes, AtomNode(AllChars \ {" "})), stack, ng,
                     dotall)
        [] t = "." ->
             ReParse(toks, i + 1,
                     Append(nodes, AtomNode(IF dotall THEN AllChars
                                            ELSE AllChars \ {"\n"})),
                     stack, ng, dotall)
        [] t = "^" ->
             ReParse(toks, i + 1, Append(nodes, AtNode("bol")), stack, ng, dotall)
        [] t = "$" ->
             ReParse(toks, i + 1, Append(nodes, AtNode("eol")), stack, ng, dotall)
        [] OTHER ->
             ReParse(toks, i + 1, Append(nodes, AtomNode({t})), stack, ng, dotall)

re_compile(toks) == ReParse(toks, 1, <<>>, <<>>, 0, FALSE)

\* a capture: the text of a group, or None for a group that took no part
NoneCap == [some |-> FALSE, v |-> <<>>]
Cap(v) == [some |-> TRUE, v |-> v]

\* no match (of the parse library's search)
MatchFail == [ok |-> FALSE, raised |-> FALSE, caps |-> <<>>, end |-> 0]

\* the index of the node opening, closing group g
OpenIdx(nodes, g) ==
    CHOOSE i \in 1..Len(nodes) : nodes[i].k = "open" /\ nodes[i].g = g
CloseIdx(nodes, g) ==
    CHOOSE i \in 1..Len(nodes) : nodes[i].k = "close" /\ nodes[i].g = g

\* from node i on, depth groups deep: the index of the ")" of the group
\* around i, or the end of the pattern
RECURSIVE RegionEnd(_, _, _)
RegionEnd(nodes, i, depth) ==
    IF i > Len(nodes) THEN i
    ELSE IF nodes[i].k = "open" THEN RegionEnd(nodes, i + 1, depth + 1)
    ELSE IF nodes[i].k = "close"
    THEN (IF depth = 0 THEN i ELSE RegionEnd(nodes, i + 1, depth - 1))
    ELSE RegionEnd(nodes, i + 1, depth)

\* from node i on: the index of the next "|" of the same group, 0 if none
RECURSIVE NextAlt(_, _, _)
NextAlt(nodes, i, depth) ==
    IF i > Len(nodes) THEN 0
    ELSE IF nodes[i].k = "open" THEN NextAlt(nodes, i + 1, depth + 1)
    ELSE IF nodes[i].k = "close"
    THEN (IF depth = 0 THEN 0 ELSE NextAlt(nodes, i + 1, depth - 1))
    ELSE IF nodes[i].k = "alt" /\ depth = 0 THEN i
    ELSE NextAlt(nodes, i + 1, depth)

\* how many characters of s from pos on lie in set, at most limit
RECURSIVE RunLen(_, _, _, _)
RunLen(s, pos, set, limit) ==
    IF limit = 0 \/ pos > Len(s) \/ s[pos] \notin set THEN 0
    ELSE 1 + RunLen(s, pos + 1, set, limit - 1)

\* the assertions: ^ at the start of the text, $ at its end or before its
\* final newline, \b between a word character and none
AtHolds(at, s, pos) ==
    CASE at = "bol" -> pos = 1
      [] at = "eol" -> pos = Len(s) + 1 \/ (pos = Len(s) /\ s[pos] = "\n")
      [] OTHER -> (pos > 1 /\ s[pos - 1] \in WordChars) #
                  (pos <= Len(s) /\ s[pos] \in WordChars)

\* what a match is run in: the nodes, the text, whether the match must end
\* at the end of the text, the node the run ends before, the possessive
\* groups the run is inside of, and whether the pattern has a "|" at all
MatchEnv(nodes, s, full) ==
    [nodes |-> nodes, s |-> s, full |-> full, stop |-> Len(nodes) + 1, inside |-> {},
     alts |-> \E j \in 1..Len(nodes) : nodes[j].k = "alt"]

\* The state of a match.  mark[2g-1], mark[2g]: where group g started and
\* ended (0 = not set); last: the highest mark in use, a group counts as
\* captured only when its end mark is not above it; starts[g]: where the
\* current round of the repeated group g began, 0 in a round the repeat
\* needs for its least count.
\* Writing mark i above `last` clears the marks between the two.
SetMark(st, i, pos) ==
    IF i <= st.last THEN [st EXCEPT !.mark[i] = pos]
    ELSE IF i = st.last + 1 THEN [st EXCEPT !.mark[i] = pos, !.last = i]
    ELSE [st EXCEPT !.mark = SubSeq(@, 1, st.last) \o [j \in 1..(i - 1 - st.last) |-> 0]
                            \o <<pos>> \o SubSeq(@, i + 1, Len(@)),
                   !.last = i]

\* group g is entered, left at pos (a group without a capture has no marks)
Enter(st, g, pos) == IF g > 0 THEN SetMark(st, 2 * g - 1, pos) ELSE st
Leave(st, g, pos) == IF g > 0 THEN SetMark(st, 2 * g, pos) ELSE st

\* a round of the repeated group g begins at pos; from: the position the
\* repeat remembers for this round, 0 for none
Round(st, g, pos, from) == Enter([st EXCEPT !.starts[g] = from], g, pos)

\* a failed run hands back the marks as it left them
Failed(st) == [ok |-> FALSE, mark |-> st.mark]

\* st with the marks a failed run r left behind: `last` is put back, the
\* marks themselves are not
Kept(st, r) == [st EXCEPT !.mark = r.mark]

\* node i lies in the body of a greedy or lazy repeat of a group
InRepeat(nodes, i) ==
    \E o \in 1..(i - 1) :
        /\ nodes[o].k = "open" /\ nodes[o].quant /\ ~nodes[o].poss
        /\ CloseIdx(nodes, nodes[o].g) >= i

\* the backtracking matcher.  ReBranches runs the branch that starts at node
\* i, then on failure the next branch of the same group.  The marks are put
\* back after a failed round of a greedy or possessive repeat of a group,
\* and after any failed attempt inside a greedy or lazy repeat of a group;
\* everywhere else what a failed attempt wrote stays (CPython 3.11 saves
\* the marks at a branch or a repeat only inside a repeat).
RECURSIVE ReRun(_, _, _, _), ReOpen(_, _, _, _), ReClose(_, _, _, _),
          ReTry(_, _, _, _, _, _), ReBranches(_, _, _, _)
ReRun(env, i, pos, st) ==
    IF i = env.stop
    THEN IF env.full /\ pos # Len(env.s) + 1 THEN Failed(st)
         ELSE [ok |-> TRUE, mark |-> st.mark, last |-> st.last,
               starts |-> st.starts, end |-> pos]
    ELSE
      CASE env.nodes[i].k = "atom" /\ ~env.nodes[i].quant ->
             IF pos <= Len(env.s) /\ env.s[pos] \in env.nodes[i].set
             THEN ReRun(env, i + 1, pos + 1, st)
             ELSE Failed(st)
        [] env.nodes[i].k = "atom" /\ env.nodes[i].quant ->
             LET n == env.nodes[i]
                 most == RunLen(env.s, pos, n.set, IF n.many THEN Len(env.s) ELSE 1)
             IN IF most < n.min THEN Failed(st)
                ELSE IF n.poss THEN ReRun(env, i + 1, pos + most, st)
                ELSE IF n.lazy THEN ReTry(env, i, pos, st, n.min, most)
                ELSE ReTry(env, i, pos, st, most, n.min)
        [] env.nodes[i].k = "open" /\ ~env.nodes[i].quant ->
             ReBranches(env, i + 1, pos, Enter(st, env.nodes[i].g, pos))
        [] env.nodes[i].k = "close" /\ ~env.nodes[i].quant ->
             ReRun(env, i + 1, pos, Leave(st, env.nodes[i].g, pos))
        [] env.nodes[i].k = "open" /\ env.nodes[i].quant -> ReOpen(env, i, pos, st)
        [] env.nodes[i].k = "close" /\ env.nodes[i].quant -> ReClose(env, i, pos, st)
        [] env.nodes[i].k = "alt" ->
             \* the end of a branch: on to the end of its group
             ReRun(env, RegionEnd(env.nodes, i, 0), pos, st)
        [] OTHER ->
             IF AtHolds(env.nodes[i].at, env.s, pos) THEN ReRun(env, i + 1, pos, st)
             ELSE Failed(st)

\* the "(" of a repeated group at node i
ReOpen(env, i, pos, st) ==
    LET n == env.nodes[i]
        after == CloseIdx(env.nodes, n.g) + 1
    IN
    CASE n.poss /\ i \notin env.inside ->
           \* a possessive repeat keeps what it took first
           LET sub == ReRun([env EXCEPT !.stop = after, !.full = FALSE,
                                        !.inside = @ \cup {i}], i, pos, st)
           IN IF sub.ok
              THEN ReRun(env, after, sub.end,
                         [starts |-> sub.starts, mark |-> sub.mark, last |-> sub.last])
              ELSE sub
      [] ~(n.poss /\ i \notin env.inside) /\ n.min = 1 ->
           ReBranches(env, i + 1, pos, Round(st, n.g, pos, 0))
      [] ~(n.poss /\ i \notin env.inside) /\ n.min = 0 /\ n.lazy ->
           LET skip == ReRun(env, after, pos, st) IN
           IF skip.ok THEN skip
           ELSE ReBranches(env, i + 1, pos,
                           Round(IF InRepeat(env.nodes, i) THEN st ELSE Kept(st, skip),
                                 n.g, pos, pos))
      [] OTHER ->
           LET in == ReBranches(env, i + 1, pos, Round(st, n.g, pos, pos)) IN
           IF in.ok THEN in ELSE ReRun(env, after, pos, st)

\* the ")" of a repeated group at node i; it goes round again only after a round that
\* took text
ReClose(env, i, pos, st) ==
    LET n == env.nodes[i]
        body == OpenIdx(env.nodes, n.g) + 1
    IN
    CASE ~n.many \/ pos = st.starts[n.g] -> ReRun(env, i + 1, pos, Leave(st, n.g, pos))
      [] ~(~n.many \/ pos = st.starts[n.g]) /\ n.lazy ->
           LET out == ReRun(env, i + 1, pos, Leave(st, n.g, pos)) IN
           IF out.ok THEN out
           ELSE ReBranches(env, body, pos,
                           Round(IF InRepeat(env.nodes, body - 1)
                                 THEN Leave(st, n.g, pos)
                                 ELSE Kept(Leave(st, n.g, pos), out), n.g, pos, pos))
      [] OTHER ->
           LET round == ReBranches(env, body, pos,
                                   Round(Leave(st, n.g, pos), n.g, pos, pos)) IN
           IF round.ok THEN round ELSE ReRun(env, i + 1, pos, Leave(st, n.g, pos))

\* the atom at i takes `take` characters; on failure of the rest the next
\* candidate length towards `last` is tried (downwards greedy, upwards lazy)
ReTry(env, i, pos, st, take, last) ==
    LET r == ReRun(env, i + 1, pos + take, st)
        kept == IF InRepeat(env.nodes, i) THEN st ELSE Kept(st, r)
    IN IF r.ok THEN r
       ELSE IF take = last THEN Failed(kept)
       ELSE ReTry(env, i, pos, kept, IF take > last THEN take - 1 ELSE take + 1, last)

ReBranches(env, i, pos, st) ==
    IF ~env.alts \/ (NextAlt(env.nodes, i, 0) = 0 /\ (i = 1 \/ env.nodes[i - 1].k # "alt"))
    THEN ReRun(env, i, pos, st)                 \* the only branch
    ELSE LET r == ReRun(env, i, pos, st)
             kept == IF InRepeat(env.nodes, i) THEN st ELSE Kept(st, r)
         IN IF r.ok THEN r
            ELSE IF NextAlt(env.nodes, i, 0) = 0 THEN Failed(kept)
            ELSE ReBranches(env, NextAlt(env.nodes, i, 0) + 1, pos, kept)

\* no group has started, no mark is set
StartState(nodes, groups) ==
    [starts |-> [g \in {nodes[j].g : j \in 1..Len(nodes)} \cup (1..groups) |-> 0],
     mark |-> SubSeq([j \in 1..(2 * groups) |-> 0], 1, 2 * groups),
     last |-> 0]

\* the match object of a run r: the text between the marks of each group.
\* A group whose start mark lies after its end mark: SystemError ("The span
\* of capturing group is wrong") instead of a match object.
MatchObject(r, s, groups) ==
    LET set(g) == 2 * g <= r.last /\ r.mark[2 * g - 1] # 0 /\ r.mark[2 * g] # 0
        wrong == r.ok /\ \E g \in 1..groups : set(g) /\ r.mark[2 * g - 1] > r.mark[2 * g]
    IN IF ~r.ok THEN MatchFail
       ELSE IF wrong THEN [MatchFail EXCEPT !.raised = TRUE]
       ELSE [ok |-> TRUE, raised |-> FALSE,
             caps |-> [g \in 1..groups |->
                          IF set(g)
                          THEN Cap(SubSeq(s, r.mark[2 * g - 1], r.mark[2 * g] - 1))
                          ELSE NoneCap],
             end |-> r.end]

\* regex.match(line): anchored at the start of the line only
re_match(regex, line) ==
    MatchObject(ReBranches(MatchEnv(regex.nodes, line, FALSE), 1, 1,
                           StartState(regex.nodes, regex.groups)),
                line, regex.groups)

(* ------------------ src/log_parser.py: sanitize_pattern ----------------- *)
\* pattern.replace('\\', '\\\\'): every backslash of the pattern is doubled
RECURSIVE sanitize_pattern(_)
sanitize_pattern(pattern) ==
    IF pattern = <<>> THEN <<>>
    ELSE (IF Head(pattern) = "\\" THEN <<"\\", "\\">> ELSE <<Head(pattern)>>)
         \o sanitize_pattern(Tail(pattern))

(* ------------------------- the parse library ---------------------------- *)
\* the field tokens of a template: "{name}", "{}" (positional) or
\* "{name:type}"; every other token is literal text
FieldTokens == {"{A}", "{B}", "{}", "{unnamed_1}", "{A:q}", "{Token1}", "{Message}"}
FieldName(tok) ==
    CASE tok = "{A}" -> "A"
      [] tok = "{B}" -> "B"
      [] tok = "{unnamed_1}" -> "unnamed_1"
      [] tok = "{A:q}" -> "A"
      [] tok = "{Token1}" -> "Token1"
      [] tok = "{Message}" -> "Message"
      [] OTHER -> ""
\* the format types parse knows; "q" is none of them (ValueError)
FieldTypeKnown(tok) == tok # "{A:q}"

ParseError == [ok |-> FALSE, nodes |-> <<>>, groups |-> 0,
               named_fields |-> <<>>, fixed_fields |-> <<>>]

\* an untyped field is the lazy group (.+?)
LazyAny == [AtomNode(AllChars) EXCEPT !.many = TRUE, !.lazy = TRUE,
                                               !.quant = TRUE]

\* parse.compile(template): the template becomes a regular expression, one
\* group per field.  The templates of this development name no field twice.
RECURSIVE ParseGen(_, _, _)
ParseGen(toks, i, acc) ==
    IF i > Len(toks) THEN acc
    ELSE LET t == toks[i] IN
      IF t \in FieldTokens
      THEN IF ~FieldTypeKnown(t) THEN ParseError
           ELSE LET g == acc.groups + 1 IN
                ParseGen(toks, i + 1,
                  [ok |-> TRUE,
                   nodes |-> acc.nodes \o
                       <<OpenNode(g, FieldName(t)), LazyAny, CloseNode(g)>>,
                   groups |-> g,
                   named_fields |->
                       IF FieldName(t) # "" THEN Append(acc.named_fields, FieldName(t))
                       ELSE acc.named_fields,
                   fixed_fields |->
                       IF FieldName(t) = "" THEN Append(acc.fixed_fields, g)
                       ELSE acc.fixed_fields])
      ELSE ParseGen(toks, i + 1,
                    [acc EXCEPT !.nodes = Append(acc.nodes, AtomNode({t}))])

parse_compile(template) ==
    ParseGen(template, 1, [ok |-> TRUE, nodes |-> <<>>, groups |-> 0,
                           named_fields |-> <<>>, fixed_fields |-> <<>>])

\* an insertion-ordered dict: the keys in order, and the values
EmptyODict == [keys |-> <<>>, val |-> EmptyDict]
OPut(d, k, v) ==
    [keys |-> IF k \in DOMAIN d.val THEN d.keys ELSE Append(d.keys, k),
     val |-> Put(d.val, k, v)]

\* the outcome of parse.parse / parse.search: an exception (raised), None
\* (not matched) or a Result with its named dict and its fixed tuple
ParseRaised == [raised |-> TRUE, matched |-> FALSE, named |-> EmptyODict,
                fixed |-> <<>>]
ParseNone == [raised |-> FALSE, matched |-> FALSE, named |-> EmptyODict,
              fixed |-> <<>>]

RECURSIVE NamedOf(_, _, _)
NamedOf(nodes, caps, i) ==
    IF i > Len(nodes) THEN EmptyODict
    ELSE LET rest == NamedOf(nodes, caps, i + 1) IN
         IF nodes[i].k = "open" /\ nodes[i].name # ""
         THEN [keys |-> <<nodes[i].name>> \o rest.keys,
               val |-> Put(rest.val, nodes[i].name, caps[nodes[i].g].v)]
         ELSE rest

ParseResult(c, m) ==
    IF ~m.ok THEN ParseNone
    ELSE [raised |-> FALSE, matched |-> TRUE,
          named |-> NamedOf(c.nodes, m.caps, 1),
          fixed |-> [j \in 1..Len(c.fixed_fields) |-> m.caps[c.fixed_fields[j]].v]]

\* parse.parse(template, line): the whole line must match
parse_parse(template, line) ==
    LET c == parse_compile(template) IN
    IF ~c.ok THEN ParseRaised
    ELSE ParseResult(c, MatchObject(ReRun(MatchEnv(c.nodes, line, TRUE), 1, 1,
                                          StartState(c.nodes, c.groups)),
                                    line, c.groups))

\* parse.search(template, line): the first position of the line from which
\* the template matches
RECURSIVE SearchFrom(_, _, _)
SearchFrom(c, line, pos) ==
    IF pos > Len(line) + 1 THEN MatchFail
    ELSE LET m == MatchObject(ReRun(MatchEnv(c.nodes, line, FALSE), 1, pos,
                                    StartState(c.nodes, c.groups)),
                              line, c.groups)
         IN IF m.ok THEN m ELSE SearchFrom(c, line, pos + 1)

parse_search(template, line) ==
    LET c == parse_compile(template) IN
    IF ~c.ok THEN ParseRaised ELSE ParseResult(c, SearchFrom(c, line, 1))

(* ----------- src/ParsingScript/log_parser.py: extract_field_names ------- *)
extract_field_names(pattern) ==
    LET c == parse_compile(pattern) IN
    IF c.ok THEN c.named_fields ELSE <<>>

(* ============================ the state ================================= *)
VARIABLES
    op,                     \* "parse" or "suggest": the function called
    impl,                   \* "A" or "B": the implementation called
    pc,                     \* the position of the call
    file,                   \* the file at file_path: whether it can be opened, its raw lines
    log_pattern,            \* parse_log_file's arguments
    field_names,
    is_best_effort,
    LOG_PATTERN_REGEX,      \* A: the compiled pattern
    lines,                  \* B: the (line number, stripped line) pairs
    expected_named_fields,  \* B: the template's own named fields
    idx,                    \* the next raw line (A) or pair (B) of the loop
    total_lines,
    parsed_lines_count,
    parsed_entries,
    entry_src,              \* history: the raw line number each entry comes from
    result,                 \* what parse_log_file returned
    strict_run,             \* history: the earlier strict call on the same inputs
    COMMON_LOG_PATTERNS,    \* the catalog
    default_patterns,       \* B: what load_patterns() reads at the default path
    file_path_given,        \* suggest_robust_pattern's file_path is not empty
    log_lines_to_check,
    cat_idx,                \* the next catalog entry of the scoring loop
    best_pattern_def,
    highest_score,
    max_capture_groups,
    suggestion              \* what suggest_robust_pattern returned

parse_vars == <<log_pattern, field_names, is_best_effort, LOG_PATTERN_REGEX, lines,
                expected_named_fields, total_lines, parsed_lines_count,
                parsed_entries, entry_src, result, strict_run>>
suggest_vars == <<COMMON_LOG_PATTERNS, default_patterns, file_path_given,
                  log_lines_to_check, cat_idx, best_pattern_def, highest_score,
                  max_capture_groups, suggestion>>
vars == <<op, impl, pc, file, idx, parse_vars, suggest_vars>>

(* ============================== inputs ================================== *)
\* raw lines as `for line in f` yields them
RawLines == {
    <<" ", "\n">>,
    <<"a", "\n">>,
    <<"a", " ", "b", "\n">>,
    <<" ", "a", "b", " ", "\n">> }

SeqsUpTo(S, n) == UNION {[1..k -> S] : k \in 0..n}

MissingFile == [exists |-> FALSE, lines |-> <<>>]
Files == {MissingFile} \cup
         {[exists |-> TRUE, lines |-> l] : l \in SeqsUpTo(RawLines, MaxFileLines)}

\* regular expressions (A), by their tokens:
\*   ([^ ]+)   ([^ ]+) ([^ ]+)   (a)?([^ ]+)   ([^ ]+   (\S+)
PatternsA == {
    <<"(", "[^ ]", "+", ")">>,
    <<"(", "[^ ]", "+", ")", " ", "(", "[^ ]", "+", ")">>,
    <<"(", "a", ")", "?", "(", "[^ ]", "+", ")">>,
    <<"(", "[^ ]", "+">>,
    <<"(", "\\", "S", "+", ")">> }

\* parse templates (B), by their tokens:
\*   {A}   {A} {B}   {} {B}   a{B}   {unnamed_1} {}   ab   {A:q} {B}
PatternsB == {
    <<"{A}">>,
    <<"{A}", " ", "{B}">>,
    <<"{}", " ", "{B}">>,
    <<"a", "{B}">>,
    <<"{unnamed_1}", " ", "{}">>,
    <<"a", "b">>,
    <<"{A:q}", " ", "{B}">> }

Patterns(i) == IF i = "A" THEN PatternsA ELSE PatternsB

FieldNameLists == {
    <<>>,
    <<"Timestamp">>,
    <<"A", "B">>,
    <<"A", "Level">>,
    <<"Timestamp", "Level", "Message">> }

\* str.lower() and str.startswith() on the field names above and the two
\* prefixes the code asks for; no name above is longer than a prefix it has
Lower(name) ==
    CASE name = "Timestamp" -> "timestamp"
      [] name = "Level" -> "level"
      [] name = "Message" -> "message"
      [] name = "A" -> "a"
      [] name = "B" -> "b"
      [] OTHER -> name
StartsWith(str, prefix) ==
    IF prefix = "unnamed_" THEN str \in {"unnamed_" \o ToString(j) : j \in 1..9}
    ELSE str = prefix

(* ============================= results ================================== *)
NoError == [kind |-> "", matched |-> 0, total |-> 0]
NoResult == [returned |-> FALSE, success |-> FALSE, keys |-> {}, data |-> <<>>,
             error |-> NoError]
\* {"success": True, "data": data}
Success(data) == [returned |-> TRUE, success |-> TRUE, keys |-> {"success", "data"},
                  data |-> data, error |-> NoError]
\* {"success": False, "error": ...}; kind names the diagnostic text, and for
\* "matched {matched} of {total} lines" its two numbers
FailureWithData(kind, total) ==
    [returned |-> TRUE, success |-> FALSE, keys |-> {"success", "error", "data"},
     data |-> <<>>, error |-> [kind |-> kind, matched |-> 0, total |-> total]]
Failure(kind, total) ==
    [returned |-> TRUE, success |-> FALSE, keys |-> {"success", "error"},
     data |-> <<>>, error |-> [kind |-> kind, matched |-> 0, total |-> total]]

Entry(fields, order) == [Fields |-> fields, FieldOrder |-> order]

\* no earlier call
NoRun == [done |-> FALSE, result |-> NoResult, entry_src |-> <<>>]

(* =============== src/log_parser.py: parse_log_file (A) ================== *)
catch_all_field_name(names) == IF names # <<>> THEN Last(names) ELSE "Message"
other_field_names(names) == IF names # <<>> THEN Front(names) ELSE <<>>

\* for i in range(expected_groups): Fields[field_names[i]] =
\* match.group(i + 1).strip().  group(i + 1) of a pattern with fewer groups is
\* an IndexError, .strip() of a group that is None an AttributeError.
RECURSIVE ExtractGroups(_, _, _, _, _)
ExtractGroups(names, caps, ngroups, i, fields) ==
    IF i > Len(names) THEN [exc |-> "", fields |-> fields]
    ELSE IF i > ngroups THEN [exc |-> "IndexError", fields |-> fields]
    ELSE IF ~caps[i].some THEN [exc |-> "AttributeError", fields |-> fields]
    ELSE ExtractGroups(names, caps, ngroups, i + 1,
                       Put(fields, names[i], Strip(caps[i].v)))

\* best effort: `if match:` extract, else raise ValueError
ForcedExtractNoMatch(names, regex, match) == [exc |-> "ValueError", fields |-> EmptyDict]
ForcedExtract(names, regex, match) ==
    IF match.ok THEN ExtractGroups(names, match.caps, regex.groups, 1, EmptyDict)
    ELSE [exc |-> "ValueError", fields |-> EmptyDict]

\* the exceptions the inner except clause of the best-effort branch catches
FallbackCaughtNoIndexError == {"AttributeError", "ValueError"}
FallbackCaughtNoValueError == {"AttributeError", "IndexError"}
FallbackCaught == {"AttributeError", "IndexError", "ValueError"}

RECURSIVE SetAll(_, _, _)
SetAll(fields, names, v) ==
    IF names = <<>> THEN fields
    ELSE SetAll(Put(fields, Head(names), v), Tail(names), v)

\* the forced fallback: N/A in every field but the last, the line in the
\* last, then the generic timestamp and level of the first two fields
FallbackFields(names, fields, line) ==
    LET f1 == SetAll(fields, other_field_names(names), Lit("N/A"))
        f2 == Put(f1, catch_all_field_name(names), Lit("[UNPARSED] ") \o line)
        f3 == IF Len(names) > 0 /\ StartsWith(Lower(names[1]), "timestamp")
              THEN Put(f2, names[1], Lit("N/A")) ELSE f2
    IN IF Len(names) > 1 /\ StartsWith(Lower(names[2]), "level")
       THEN Put(f3, names[2], Lit("UNRECOGNIZED")) ELSE f3

\* strict: a line counts only with `match and len(match.groups()) == expected_groups`
StrictMatch(names, regex, match) == match.ok /\ regex.groups = Len(names)

\* strict: `elif total_lines > 0 and parsed_lines_count == 0`, on a line that
\* did not match
NoMatchSoFarOff(total, count) == total > 1 /\ count = 0
NoMatchSoFar(total, count) == total > 0 /\ count = 0

\* sanitize and compile; re.error is the invalid-pattern failure
A_Compile ==
    /\ op = "parse" /\ impl = "A" /\ pc = "start"
    /\ LET r == re_compile(sanitize_pattern(log_pattern)) IN
       IF r.ok
       THEN /\ LOG_PATTERN_REGEX' = r
            /\ pc' = "open"
            /\ UNCHANGED result
       ELSE /\ result' = Failure("InvalidRegex", 0)
            /\ pc' = "done"
            /\ UNCHANGED LOG_PATTERN_REGEX
    /\ UNCHANGED <<op, impl, file, idx, log_pattern, field_names, is_best_effort,
                   lines, expected_named_fields, total_lines, parsed_lines_count,
                   parsed_entries, entry_src, suggest_vars, strict_run>>

\* open(file_path): FileNotFoundError is the not-found failure
A_Open ==
    /\ op = "parse" /\ impl = "A" /\ pc = "open"
    /\ IF file.exists
       THEN /\ pc' = "loop"
            /\ idx' = 1
            /\ UNCHANGED result
       ELSE /\ result' = Failure("NotFound", 0)
            /\ pc' = "done"
            /\ UNCHANGED idx
    /\ UNCHANGED <<op, impl, file, log_pattern, field_names, is_best_effort,
                   LOG_PATTERN_REGEX, lines, expected_named_fields, total_lines,
                   parsed_lines_count, parsed_entries, entry_src, suggest_vars, strict_run>>

\* one iteration of `for line in f`
A_Line ==
    /\ op = "parse" /\ impl = "A" /\ pc = "loop" /\ idx <= Len(file.lines)
    /\ LET line == Strip(file.lines[idx])
           match == re_match(LOG_PATTERN_REGEX, line)
           forced == ForcedExtract(field_names, LOG_PATTERN_REGEX, match)
           strict == ExtractGroups(field_names, match.caps, LOG_PATTERN_REGEX.groups,
                                   1, EmptyDict)
       IN
       IF line = <<>>
       THEN /\ idx' = idx + 1
            /\ UNCHANGED <<pc, total_lines, parsed_lines_count, parsed_entries,
                           entry_src, result>>
       ELSE
         /\ total_lines' = total_lines + 1
         /\ IF match.raised
            THEN \* match() itself raised: the outer `except Exception`
                 /\ result' = Failure("Unexpected", 0)
                 /\ pc' = "done"
                 /\ UNCHANGED <<idx, parsed_lines_count, parsed_entries, entry_src>>
            ELSE IF is_best_effort
            THEN IF forced.exc = ""
                 THEN /\ parsed_entries' =
                           Append(parsed_entries, Entry(forced.fields, field_names))
                      /\ entry_src' = Append(entry_src, idx)
                      /\ parsed_lines_count' = parsed_lines_count + 1
                      /\ idx' = idx + 1
                      /\ UNCHANGED <<pc, result>>
                 ELSE IF forced.exc \in FallbackCaught
                 THEN /\ parsed_entries' =
                           Append(parsed_entries,
                                  Entry(FallbackFields(field_names, forced.fields, line),
                                        field_names))
                      /\ entry_src' = Append(entry_src, idx)
                      /\ idx' = idx + 1
                      /\ UNCHANGED <<pc, parsed_lines_count, result>>
                 ELSE \* the outer `except Exception`
                      /\ result' = Failure("Unexpected", 0)
                      /\ pc' = "done"
                      /\ UNCHANGED <<idx, parsed_lines_count, parsed_entries, entry_src>>
            ELSE IF StrictMatch(field_names, LOG_PATTERN_REGEX, match)
                 THEN IF strict.exc = ""
                      THEN /\ parsed_entries' =
                                Append(parsed_entries, Entry(strict.fields, field_names))
                           /\ entry_src' = Append(entry_src, idx)
                           /\ parsed_lines_count' = parsed_lines_count + 1
                           /\ idx' = idx + 1
                           /\ UNCHANGED <<pc, result>>
                      ELSE \* the outer `except Exception`
                           /\ result' = Failure("Unexpected", 0)
                           /\ pc' = "done"
                           /\ UNCHANGED <<idx, parsed_lines_count, parsed_entries,
                                          entry_src>>
                 ELSE IF NoMatchSoFar(total_lines', parsed_lines_count)
                 THEN /\ result' = Failure("NoMatch", total_lines')
                      /\ pc' = "done"
                      /\ UNCHANGED <<idx, parsed_lines_count, parsed_entries, entry_src>>
                 ELSE /\ idx' = idx + 1
                      /\ UNCHANGED <<pc, parsed_lines_count, parsed_entries, entry_src,
                                     result>>
    /\ UNCHANGED <<op, impl, file, log_pattern, field_names, is_best_effort,
                   LOG_PATTERN_REGEX, lines, expected_named_fields, suggest_vars, strict_run>>

\* the file is exhausted: {"success": True, "data": parsed_entries}
A_Return ==
    /\ op = "parse" /\ impl = "A" /\ pc = "loop" /\ idx > Len(file.lines)
    /\ result' = Success(parsed_entries)
    /\ pc' = "done"
    /\ UNCHANGED <<op, impl, file, idx, log_pattern, field_names, is_best_effort,
                   LOG_PATTERN_REGEX, lines, expected_named_fields, total_lines,
                   parsed_lines_count, parsed_entries, entry_src, suggest_vars, strict_run>>

(* ========= src/ParsingScript/log_parser.py: parse_log_file (B) ========== *)
\* the non-empty stripped lines of f.readlines(), with their line numbers
RECURSIVE NonEmptyLines(_, _)
NonEmptyLines(raw, i) ==
    IF i > Len(raw) THEN <<>>
    ELSE (IF Strip(raw[i]) # <<>> THEN <<[num |-> i, text |-> Strip(raw[i])]>>
          ELSE <<>>) \o NonEmptyLines(raw, i + 1)

\* data = result.named.copy(), then unnamed_<j+1> for each fixed value whose
\* key is not taken
RECURSIVE AddUnnamed(_, _, _)
AddUnnamed(data, fixed, j) ==
    IF j > Len(fixed) THEN data
    ELSE LET key == "unnamed_" \o ToString(j) IN
         AddUnnamed(IF key \in DOMAIN data.val THEN data ELSE OPut(data, key, fixed[j]),
                    fixed, j + 1)

InSeq(x, s) == \E i \in 1..Len(s) : s[i] = x

\* output_field_names: the template's named fields, then every found key
\* that starts with unnamed_ and is not among them yet
RECURSIVE OutputFieldNames(_, _)
OutputFieldNames(out, keys) ==
    IF keys = <<>> THEN out
    ELSE OutputFieldNames(
           IF StartsWith(Head(keys), "unnamed_") /\ ~InSeq(Head(keys), out)
           THEN Append(out, Head(keys)) ELSE out,
           Tail(keys))

\* the entry of a line the template parsed
MatchedEntry(names, named_fields, res) ==
    LET data == AddUnnamed(res.named, res.fixed, 1)
        output_field_names == OutputFieldNames(named_fields, data.keys)
    IN Entry([k \in DOMAIN data.val |-> Strip(data.val[k])],
             IF names # output_field_names /\ output_field_names # <<>>
             THEN output_field_names ELSE names)

\* the entry of a line the template did not parse, best effort
FallbackEntryAsMessage(line) ==
    Entry(Put(EmptyDict, "Message", Lit("[UNPARSED] ") \o line), <<"Message">>)
FallbackEntry(line) ==
    Entry(Put(EmptyDict, "FullLine", Lit("[UNPARSED] ") \o line), <<"FullLine">>)

\* after the loop: `not is_best_effort and not parsed_entries and total_lines > 0`
StrictEmpty(best_effort, entries, total) ==
    ~best_effort /\ entries = <<>> /\ total > 0

\* open, readlines, keep the non-empty lines; an empty list returns at once
B_ReadLines ==
    /\ op = "parse" /\ impl = "B" /\ pc = "start"
    /\ IF ~file.exists
       THEN /\ result' = Failure("NotFound", 0)
            /\ pc' = "done"
            /\ UNCHANGED <<lines, total_lines, expected_named_fields, idx>>
       ELSE /\ lines' = NonEmptyLines(file.lines, 1)
            /\ IF lines' = <<>>
               THEN /\ result' = Success(<<>>)
                    /\ pc' = "done"
                    /\ UNCHANGED <<total_lines, expected_named_fields, idx>>
               ELSE /\ total_lines' = Len(lines')
                    /\ expected_named_fields' = extract_field_names(log_pattern)
                    /\ idx' = 1
                    /\ pc' = "loop"
                    /\ UNCHANGED result
    /\ UNCHANGED <<op, impl, file, log_pattern, field_names, is_best_effort,
                   LOG_PATTERN_REGEX, parsed_lines_count, parsed_entries, entry_src,
                   suggest_vars, strict_run>>

\* one iteration of `for i, (line_num, line) in enumerate(lines)`
B_Line ==
    /\ op = "parse" /\ impl = "B" /\ pc = "loop" /\ idx <= Len(lines)
    /\ LET line == lines[idx].text
           res == parse_parse(log_pattern, line)
       IN
       IF res.raised
       THEN \* `except Exception`
            /\ result' = Failure("Unexpected", 0)
            /\ pc' = "done"
            /\ UNCHANGED <<idx, parsed_entries, entry_src>>
       ELSE IF res.matched
       THEN /\ parsed_entries' =
                 Append(parsed_entries,
                        MatchedEntry(field_names, expected_named_fields, res))
            /\ entry_src' = Append(entry_src, lines[idx].num)
            /\ idx' = idx + 1
            /\ UNCHANGED <<pc, result>>
       ELSE IF is_best_effort
       THEN /\ parsed_entries' = Append(parsed_entries, FallbackEntry(line))
            /\ entry_src' = Append(entry_src, lines[idx].num)
            /\ idx' = idx + 1
            /\ UNCHANGED <<pc, result>>
       ELSE /\ idx' = idx + 1
            /\ UNCHANGED <<pc, result, parsed_entries, entry_src>>
    /\ UNCHANGED <<op, impl, file, log_pattern, field_names, is_best_effort,
                   LOG_PATTERN_REGEX, lines, expected_named_fields, total_lines,
                   parsed_lines_count, suggest_vars, strict_run>>

\* after the loop: the strict zero-match failure, or success
B_Return ==
    /\ op = "parse" /\ impl = "B" /\ pc = "loop" /\ idx > Len(lines)
    /\ result' = IF StrictEmpty(is_best_effort, parsed_entries, total_lines)
                 THEN Failure("NoMatch", total_lines)
                 ELSE Success(parsed_entries)
    /\ pc' = "done"
    /\ UNCHANGED <<op, impl, file, idx, log_pattern, field_names, is_best_effort,
                   LOG_PATTERN_REGEX, lines, expected_named_fields, total_lines,
                   parsed_lines_count, parsed_entries, entry_src, suggest_vars, strict_run>>

(* ====================== extraction: specification ======================= *)
NoTemplate == [pattern |-> <<>>, field_names |-> <<>>, has_field_names |-> FALSE]

SuggestIdle ==
    /\ COMMON_LOG_PATTERNS = <<>>
    /\ default_patterns = [exists |-> FALSE, patterns |-> <<>>]
    /\ file_path_given = FALSE
    /\ log_lines_to_check = <<>>
    /\ cat_idx = 0
    /\ best_pattern_def = NoTemplate
    /\ highest_score = 0
    /\ max_capture_groups = 0
    /\ suggestion = [returned |-> FALSE, def |-> NoTemplate]

ParseIdle ==
    /\ LOG_PATTERN_REGEX = ReError
    /\ lines = <<>>
    /\ expected_named_fields = <<>>
    /\ total_lines = 0
    /\ parsed_lines_count = 0
    /\ parsed_entries = <<>>
    /\ entry_src = <<>>
    /\ result = NoResult
    /\ strict_run = NoRun

InitParse ==
    /\ op = "parse"
    /\ impl \in {"A", "B"}
    /\ pc = "start"
    /\ file \in Files
    /\ log_pattern \in Patterns(impl)
    /\ field_names \in FieldNameLists
    /\ is_best_effort \in BOOLEAN
    /\ idx = 0
    /\ ParseIdle
    /\ SuggestIdle

NextParse ==
    \/ A_Compile
    \/ A_Open
    \/ A_Line
    \/ A_Return
    \/ B_ReadLines
    \/ B_Line
    \/ B_Return

SpecParse == InitParse /\ [][NextParse]_vars

\* the caller runs the strict call, then calls parse_log_file again with the
\* same file, template and field_names and is_best_effort = True; every
\* local of the function starts afresh
CallAgain ==
    /\ op = "parse" /\ pc = "done" /\ ~is_best_effort /\ ~strict_run.done
    /\ strict_run' = [done |-> TRUE, result |-> result, entry_src |-> entry_src]
    /\ is_best_effort' = TRUE
    /\ pc' = "start"
    /\ idx' = 0
    /\ LOG_PATTERN_REGEX' = ReError
    /\ lines' = <<>>
    /\ expected_named_fields' = <<>>
    /\ total_lines' = 0
    /\ parsed_lines_count' = 0
    /\ parsed_entries' = <<>>
    /\ entry_src' = <<>>
    /\ result' = NoResult
    /\ UNCHANGED <<op, impl, file, log_pattern, field_names, suggest_vars>>

InitBoth == InitParse /\ ~is_best_effort
NextBoth == NextParse \/ CallAgain
SpecBoth == InitBoth /\ [][NextBoth]_vars

(* ======================= extraction: properties ========================= *)
ParseDone == op = "parse" /\ pc = "done"

\* the raw line numbers of the non-empty (after trimming) lines, in order
NonEmptyNums(raw) ==
    SelectSeq([i \in 1..Len(raw) |-> i], LAMBDA i : Strip(raw[i]) # <<>>)

\* the template compiles (A: after sanitize_pattern)
Compiles ==
    IF impl = "A" THEN re_compile(sanitize_pattern(log_pattern)).ok
    ELSE parse_compile(log_pattern).ok

\* raw line i fully matches the template: A, a match of a pattern with as
\* many groups as field names; B, a parse of the whole line
FullMatch(i) ==
    LET line == Strip(file.lines[i]) IN
    IF impl = "A"
    THEN LET regex == re_compile(sanitize_pattern(log_pattern)) IN
         regex.ok /\ re_match(regex, line).ok /\ regex.groups = Len(field_names)
    ELSE parse_parse(log_pattern, line).matched

FullMatchNums == SelectSeq(NonEmptyNums(file.lines), FullMatch)

\* C1: best-effort totality.  A finished best-effort run over a readable
\* file with a template that compiles succeeded, and its data has one record
\* per non-empty line, the i-th from the i-th non-empty line.
C1_BestEffortTotal ==
    (ParseDone /\ is_best_effort /\ file.exists /\ Compiles) =>
        /\ result.success
        /\ "data" \in result.keys
        /\ Len(result.data) = Len(NonEmptyNums(file.lines))
        /\ Len(entry_src) = Len(result.data)
        /\ entry_src = NonEmptyNums(file.lines)

\* a best-effort run over a blank line, a line that matched and a line that
\* fell back
C1_Witness ==
    /\ ParseDone /\ is_best_effort /\ result.success /\ impl = "A"
    /\ Len(file.lines) = 3 /\ Len(result.data) = 2
    /\ parsed_lines_count = 1

\* C2: strict drops non-conforming lines without failing.  A finished strict
\* run over a file with at least one fully matching line succeeded with
\* exactly the records of the fully matching lines, in input order.
C2_StrictDrops ==
    (ParseDone /\ ~is_best_effort /\ file.exists /\ Compiles
       /\ FullMatchNums # <<>>) =>
        /\ result.success
        /\ Len(result.data) = Len(FullMatchNums)
        /\ entry_src = FullMatchNums

\* C3: empty strict output is never a silent success.  With a template that
\* compiles: a strict run with non-empty lines none of which fully matches
\* failed; a run over no non-empty line succeeded with empty data (both
\* disciplines); a strict success over a non-empty line carries a record.
C3_NoSilentEmpty ==
    (ParseDone /\ file.exists /\ Compiles) =>
        /\ (~is_best_effort /\ NonEmptyNums(file.lines) # <<>> /\ FullMatchNums = <<>>)
              => ~result.success
        /\ NonEmptyNums(file.lines) = <<>>
              => (result.success /\ "data" \in result.keys /\ result.data = <<>>)
        /\ (~is_best_effort /\ result.success /\ NonEmptyNums(file.lines) # <<>>)
              => result.data # <<>>

\* a strict run failed for lack of a match over two non-empty lines
C3_Witness ==
    /\ ParseDone /\ ~is_best_effort /\ Compiles
    /\ ~result.success /\ result.error.kind = "NoMatch"
    /\ Len(NonEmptyNums(file.lines)) = 2

\* C4: the strict no-match diagnostic says "0 of N", N the number of
\* non-empty lines of the file.
C4_ZeroOfN ==
    (ParseDone /\ result.error.kind = "NoMatch") =>
        /\ result.error.matched = 0
        /\ result.error.total = Len(NonEmptyNums(file.lines))

\* the fallback lines of a best-effort run of A: no match, or a pattern with
\* fewer groups than field names
FellBack(i) ==
    LET regex == re_compile(sanitize_pattern(log_pattern)) IN
    ~re_match(regex, Strip(file.lines[i])).ok \/ regex.groups < Len(field_names)

\* C5: lossless catch-all fallback (A).  In best-effort mode with a
\* non-empty field_names, the record of a line that did not match or matched
\* with too few groups holds "[UNPARSED] " + the trimmed line in the last
\* field and a placeholder in every other field.
C5_LosslessCatchAll ==
    (op = "parse" /\ impl = "A" /\ is_best_effort /\ field_names # <<>>) =>
        \A j \in 1..Len(parsed_entries) :
            FellBack(entry_src[j]) =>
                /\ parsed_entries[j].Fields[Last(field_names)] =
                       Lit("[UNPARSED] ") \o Strip(file.lines[entry_src[j]])
                /\ \A n \in DOMAIN parsed_entries[j].Fields :
                       n # Last(field_names) =>
                           parsed_entries[j].Fields[n] \in
                               {Lit("N/A"), Lit("UNRECOGNIZED")}

\* C9: an invalid template is a run-level failure.  A finished run over an
\* existing file with a template that does not compile failed, and no line
\* was turned into a record.
C9_InvalidTemplateFails ==
    (ParseDone /\ file.exists /\ ~Compiles) =>
        /\ ~result.success
        /\ parsed_entries = <<>>

\* every returned dict is {success: true, data} or {success: false, error}
ResultShape ==
    \/ result.success /\ result.keys = {"success", "data"}
    \/ ~result.success /\ result.keys = {"success", "error"}
         /\ result.error.kind # ""

\* C10 as stated: no partial commit, and a missing input file is always the
\* not-found failure.
C10_Original ==
    ParseDone =>
        /\ ResultShape
        /\ ~file.exists => (~result.success /\ result.error.kind = "NotFound")

\* C10 amended: no partial commit; a missing input file is a failure, the
\* not-found one unless A found the pattern invalid first.
C10_NoPartialCommit ==
    ParseDone =>
        /\ ResultShape
        /\ ~file.exists =>
              /\ ~result.success
              /\ \/ result.error.kind = "NotFound"
                 \/ impl = "A" /\ ~Compiles /\ result.error.kind = "InvalidRegex"
        /\ (~file.exists /\ Compiles) => result.error.kind = "NotFound"

\* a run failed after lines had been turned into records
C10_Witness ==
    /\ ParseDone /\ ~result.success /\ parsed_entries # <<>>
    /\ "data" \notin result.keys

(* ============== suggest_robust_pattern (A and B) ======================== *)
\* a catalog entry {pattern, description, field_names}; the description takes
\* no part in the selection and every entry has one
Template(pattern, names) ==
    [pattern |-> pattern, field_names |-> names, has_field_names |-> TRUE]
\* a catalog entry of patterns.json without "field_names"
Nameless(pattern) ==
    [pattern |-> pattern, field_names |-> <<>>, has_field_names |-> FALSE]

\* A: the literal returned for an empty catalog, ^(\S+)\s+(.*)$
CriticalFallback ==
    Template(<<"^", "(", "\\", "S", "+", ")", "\\", "s", "+", "(", ".", "*", ")", "$">>,
             <<"Token1", "Message">>)

\* B: load_patterns.  json is the patterns.json of the default path: whether
\* it exists and the "pattern" of each entry; field_names are derived.
MINIMAL_DEFAULT_PATTERN ==
    <<Template(<<"{Token1}", " ", "{Message}">>,
               extract_field_names(<<"{Token1}", " ", "{Message}">>))>>
load_patterns(json) ==
    IF ~json.exists \/ json.patterns = <<>> THEN MINIMAL_DEFAULT_PATTERN
    ELSE [i \in 1..Len(json.patterns) |->
             Template(json.patterns[i], extract_field_names(json.patterns[i]))]

\* A: the inner `for line in log_lines_to_check`: the lines the pattern
\* matches with as many groups as the entry has field names, unless
\* regex.match raises on a line (SystemError, which the `except re.error` of
\* the loop does not catch)
RECURSIVE ScoreA(_, _, _)
ScoreA(regex, expected, sample) ==
    IF sample = <<>> THEN [raised |-> FALSE, score |-> 0]
    ELSE LET match == re_match(regex, Head(sample)) IN
         IF match.raised THEN [raised |-> TRUE, score |-> 0]
         ELSE LET rest == ScoreA(regex, expected, Tail(sample)) IN
              [rest EXCEPT !.score = @ + IF match.ok /\ regex.groups = expected
                                         THEN 1 ELSE 0]

\* B: the lines of the sample parse.search finds the template in, with as
\* many named values as the entry has field names
ScoreB(pattern, expected, sample) ==
    Cardinality({i \in 1..Len(sample) :
                    LET res == parse_search(pattern, sample[i]) IN
                    res.matched /\ Len(res.named.keys) = expected})

\* the scoring and tie-breaking of one entry: it replaces the best so far
\* with a higher score, or the same score and more groups
TakesOverLate(current_score, groups, highest, max_groups) ==
    \/ current_score > highest
    \/ current_score = highest /\ groups >= max_groups
TakesOver(current_score, groups, highest, max_groups) ==
    \/ current_score > highest
    \/ current_score = highest /\ groups > max_groups

initial_best_def == COMMON_LOG_PATTERNS[1]

Returned(def) == [returned |-> TRUE, def |-> def]

\* the guards before the sample: empty catalog, empty path, open(file_path)
S_Start ==
    /\ op = "suggest" /\ pc = "start"
    /\ IF COMMON_LOG_PATTERNS = <<>>
       THEN /\ suggestion' = Returned(IF impl = "A" THEN CriticalFallback
                                      ELSE load_patterns(default_patterns)[1])
            /\ pc' = "done"
            /\ UNCHANGED idx
       ELSE IF ~file_path_given \/ ~file.exists
       THEN /\ suggestion' = Returned(initial_best_def)
            /\ pc' = "done"
            /\ UNCHANGED idx
       ELSE /\ pc' = "read"
            /\ idx' = 1
            /\ UNCHANGED suggestion
    /\ UNCHANGED <<op, impl, file, parse_vars, COMMON_LOG_PATTERNS, default_patterns,
                   file_path_given, log_lines_to_check, cat_idx, best_pattern_def,
                   highest_score, max_capture_groups>>

\* `if len(log_lines_to_check) >= ROBUST_CHECK_LINES: break`
SampleFullLate(sample) == Len(sample) > ROBUST_CHECK_LINES
SampleFull(sample) == Len(sample) >= ROBUST_CHECK_LINES

\* one iteration of `for line in f`, with its break
S_ReadLine ==
    /\ op = "suggest" /\ pc = "read" /\ idx <= Len(file.lines)
    /\ LET line == Strip(file.lines[idx]) IN
       log_lines_to_check' =
           IF line # <<>> THEN Append(log_lines_to_check, line) ELSE log_lines_to_check
    /\ IF SampleFull(log_lines_to_check')
       THEN pc' = "collected" /\ UNCHANGED idx
       ELSE idx' = idx + 1 /\ UNCHANGED pc
    /\ UNCHANGED <<op, impl, file, parse_vars, COMMON_LOG_PATTERNS, default_patterns,
                   file_path_given, cat_idx, best_pattern_def, highest_score,
                   max_capture_groups, suggestion>>

\* the file is exhausted
S_EndOfFile ==
    /\ op = "suggest" /\ pc = "read" /\ idx > Len(file.lines)
    /\ pc' = "collected"
    /\ UNCHANGED <<op, impl, file, idx, parse_vars, suggest_vars>>

\* an empty sample returns the first entry; else the tracking variables are
\* set up.  With a first entry without field_names, best_pattern_def and
\* highest_score are assigned, then len(initial_best_def["field_names"]) is
\* a KeyError and the outer except returns the first entry.
S_InitBest ==
    /\ op = "suggest" /\ pc = "collected"
    /\ IF log_lines_to_check = <<>>
       THEN /\ suggestion' = Returned(initial_best_def)
            /\ pc' = "done"
            /\ UNCHANGED <<best_pattern_def, highest_score, max_capture_groups, cat_idx>>
       ELSE IF ~initial_best_def.has_field_names
       THEN /\ best_pattern_def' = initial_best_def
            /\ highest_score' = 0
            /\ suggestion' = Returned(initial_best_def)
            /\ pc' = "done"
            /\ UNCHANGED <<max_capture_groups, cat_idx>>
       ELSE /\ best_pattern_def' = initial_best_def
            /\ highest_score' = 0
            /\ max_capture_groups' = Len(initial_best_def.field_names)
            /\ cat_idx' = 1
            /\ pc' = "score"
            /\ UNCHANGED suggestion
    /\ UNCHANGED <<op, impl, file, idx, parse_vars, COMMON_LOG_PATTERNS,
                   default_patterns, file_path_given, log_lines_to_check>>

\* one iteration of `for pattern_def in COMMON_LOG_PATTERNS`.
\* A: re.error skips the entry, a missing field_names (KeyError) or an error
\* of regex.match leaves the loop for the outer except.  B: any exception
\* skips the entry.
S_Score ==
    /\ op = "suggest" /\ pc = "score" /\ cat_idx <= Len(COMMON_LOG_PATTERNS)
    /\ LET pattern_def == COMMON_LOG_PATTERNS[cat_idx]
           regex == re_compile(sanitize_pattern(pattern_def.pattern))
           skipped == IF impl = "A" THEN ~regex.ok
                      ELSE ~pattern_def.has_field_names
                           \/ ~parse_compile(pattern_def.pattern).ok
           expected_groups == Len(pattern_def.field_names)
           scored == ScoreA(regex, expected_groups, log_lines_to_check)
           current_score ==
               IF impl = "A" THEN scored.score
               ELSE ScoreB(pattern_def.pattern, expected_groups, log_lines_to_check)
       IN
       IF skipped
       THEN /\ cat_idx' = cat_idx + 1
            /\ UNCHANGED <<pc, best_pattern_def, highest_score, max_capture_groups,
                           suggestion>>
       ELSE IF ~pattern_def.has_field_names
               \/ (impl = "A" /\ scored.raised)
       THEN /\ suggestion' = Returned(initial_best_def)
            /\ pc' = "done"
            /\ UNCHANGED <<cat_idx, best_pattern_def, highest_score,
                           max_capture_groups>>
       ELSE /\ cat_idx' = cat_idx + 1
            /\ IF TakesOver(current_score, expected_groups, highest_score,
                            max_capture_groups)
               THEN /\ highest_score' = current_score
                    /\ max_capture_groups' = expected_groups
                    /\ best_pattern_def' = pattern_def
               ELSE UNCHANGED <<highest_score, max_capture_groups, best_pattern_def>>
            /\ UNCHANGED <<pc, suggestion>>
    /\ UNCHANGED <<op, impl, file, idx, parse_vars, COMMON_LOG_PATTERNS,
                   default_patterns, file_path_given, log_lines_to_check>>

\* the catalog is exhausted: return best_pattern_def
S_Return ==
    /\ op = "suggest" /\ pc = "score" /\ cat_idx > Len(COMMON_LOG_PATTERNS)
    /\ suggestion' = Returned(best_pattern_def)
    /\ pc' = "done"
    /\ UNCHANGED <<op, impl, file, idx, parse_vars, COMMON_LOG_PATTERNS,
                   default_patterns, file_path_given, log_lines_to_check, cat_idx,
                   best_pattern_def, highest_score, max_capture_groups>>

(* ====================== suggestion: specification ======================= *)
\* catalog entries of A:  ([^ ]+) [A]   ([^ ]+) ([^ ]+) [A, B]   (ab) [B]
\*   ([^ ]+ [A, B, Message]   ([^ ]+) without field_names
CatalogA == {
    Template(<<"(", "[^ ]", "+", ")">>, <<"A">>),
    Template(<<"(", "[^ ]", "+", ")", " ", "(", "[^ ]", "+", ")">>, <<"A", "B">>),
    Template(<<"(", "a", "b", ")">>, <<"B">>),
    Template(<<"(", "[^ ]", "+">>, <<"A", "B", "Message">>),
    Nameless(<<"(", "[^ ]", "+", ")">>) }

\* catalog entries of B, as load_patterns makes them:
\*   {A}   {A} {B}   a{B}   ab   {A:q} {B}
CatalogB == {
    Template(p, extract_field_names(p)) : p \in {
        <<"{A}">>,
        <<"{A}", " ", "{B}">>,
        <<"a", "{B}">>,
        <<"a", "b">>,
        <<"{A:q}", " ", "{B}">> } }

Catalog(i) == IF i = "A" THEN CatalogA ELSE CatalogB

\* the patterns.json at B's default path
DefaultJsons == {
    [exists |-> FALSE, patterns |-> <<>>],
    [exists |-> TRUE, patterns |-> <<>>],
    [exists |-> TRUE, patterns |-> << <<"{A}">> >>] }
NoJson == [exists |-> FALSE, patterns |-> <<>>]

\* the files of a suggestion run: a free part, alone or followed by
\* ROBUST_CHECK_LINES more lines
Padding == [i \in 1..ROBUST_CHECK_LINES |-> <<"a", "\n">>]
SampleFiles ==
    {MissingFile} \cup
    {[exists |-> TRUE, lines |-> free \o pad] :
        free \in SeqsUpTo(RawLines, MaxSampleFree), pad \in {<<>>, Padding}}

InitSuggest ==
    /\ op = "suggest"
    /\ impl \in {"A", "B"}
    /\ pc = "start"
    /\ COMMON_LOG_PATTERNS \in SeqsUpTo(Catalog(impl), MaxCatalog)
    /\ default_patterns \in
           IF impl = "B" /\ COMMON_LOG_PATTERNS = <<>> THEN DefaultJsons ELSE {NoJson}
    /\ file_path_given \in BOOLEAN
    /\ file \in IF file_path_given /\ COMMON_LOG_PATTERNS # <<>>
                THEN SampleFiles ELSE {MissingFile}
    /\ idx = 0
    /\ log_lines_to_check = <<>>
    /\ cat_idx = 0
    /\ best_pattern_def = NoTemplate
    /\ highest_score = 0
    /\ max_capture_groups = 0
    /\ suggestion = [returned |-> FALSE, def |-> NoTemplate]
    /\ log_pattern = <<>>
    /\ field_names = <<>>
    /\ is_best_effort = FALSE
    /\ ParseIdle

NextSuggest ==
    \/ S_Start
    \/ S_ReadLine
    \/ S_EndOfFile
    \/ S_InitBest
    \/ S_Score
    \/ S_Return

SpecSuggest == InitSuggest /\ [][NextSuggest]_vars

(* ============== the program: one call of either function =============== *)
Init == InitParse \/ InitSuggest
Next == NextParse \/ CallAgain \/ NextSuggest
Spec == Init /\ [][Next]_vars

(* ======================= suggestion: properties ========================= *)
SuggestDone == op = "suggest" /\ pc = "done"

EntryCompiles(e) ==
    IF impl = "A" THEN re_compile(sanitize_pattern(e.pattern)).ok
    ELSE parse_compile(e.pattern).ok

\* the lines of the collected sample that entry e fully matches
FullSet(e) ==
    IF impl = "A"
    THEN LET regex == re_compile(sanitize_pattern(e.pattern)) IN
         IF ~regex.ok \/ regex.groups # Len(e.field_names) THEN {}
         ELSE {i \in 1..Len(log_lines_to_check) :
                  re_match(regex, log_lines_to_check[i]).ok}
    ELSE {i \in 1..Len(log_lines_to_check) :
             LET res == parse_search(e.pattern, log_lines_to_check[i]) IN
             res.matched /\ Len(res.named.keys) = Len(e.field_names)}

EntryScore(e) == Cardinality(FullSet(e))

\* entry k is above entry j in the order (score, number of field names);
\* score: the scores of the entries of the catalog
Above(score, k, j) ==
    \/ score[k] > score[j]
    \/ /\ score[k] = score[j]
       /\ Len(COMMON_LOG_PATTERNS[k].field_names) > Len(COMMON_LOG_PATTERNS[j].field_names)

\* the smallest index of a maximal entry of the catalog
FirstMaximal ==
    LET n == Len(COMMON_LOG_PATTERNS)
        score == SubSeq([k \in 1..n |-> EntryScore(COMMON_LOG_PATTERNS[k])], 1, n)
    IN CHOOSE k \in 1..n :
           /\ \A j \in 1..n : ~Above(score, j, k)
           /\ \A j \in 1..(k - 1) : Above(score, k, j)

WellFormedCatalog ==
    /\ COMMON_LOG_PATTERNS # <<>>
    /\ \A k \in 1..Len(COMMON_LOG_PATTERNS) :
           /\ COMMON_LOG_PATTERNS[k].has_field_names
           /\ EntryCompiles(COMMON_LOG_PATTERNS[k])

\* C6: suggestion total order.  Over a non-empty catalog whose entries all
\* compile (and have field names) and a non-empty sample, the entry returned
\* is the maximal one under (score, number of field names), the first of the
\* catalog among those equal on both.
C6_TotalOrder ==
    (SuggestDone /\ log_lines_to_check # <<>> /\ WellFormedCatalog) =>
        suggestion.def = COMMON_LOG_PATTERNS[FirstMaximal]

\* the entry returned ties on a positive score and on the field count with a
\* different, later entry
C6_Witness ==
    /\ SuggestDone /\ WellFormedCatalog /\ log_lines_to_check # <<>>
    /\ \E k, j \in 1..Len(COMMON_LOG_PATTERNS) :
           /\ k < j
           /\ suggestion.def = COMMON_LOG_PATTERNS[k]
           /\ COMMON_LOG_PATTERNS[j] # COMMON_LOG_PATTERNS[k]
           /\ EntryScore(COMMON_LOG_PATTERNS[k]) > 0
           /\ EntryScore(COMMON_LOG_PATTERNS[j]) = EntryScore(COMMON_LOG_PATTERNS[k])
           /\ Len(COMMON_LOG_PATTERNS[j].field_names) =
                  Len(COMMON_LOG_PATTERNS[k].field_names)

\* C7: suggestion monotonicity.  If entry a fully matches every sample line
\* entry b fully matches and at least one more, and both have the same number
\* of field names, then b is not returned.
C7_Monotone ==
    SuggestDone =>
        \A a, b \in 1..Len(COMMON_LOG_PATTERNS) :
            LET ea == COMMON_LOG_PATTERNS[a]
                eb == COMMON_LOG_PATTERNS[b]
            IN (/\ ea.has_field_names /\ eb.has_field_names
                /\ Len(ea.field_names) = Len(eb.field_names)
                /\ FullSet(eb) \subseteq FullSet(ea)
                /\ FullSet(eb) # FullSet(ea))
               => suggestion.def # eb

\* the first entry of the catalog is due: no path, no file, or no non-empty line
FirstEntryDue ==
    \/ ~file_path_given
    \/ ~file.exists
    \/ NonEmptyNums(file.lines) = <<>>

\* C8: suggestion never fails.  A finished call returned a template: with a
\* non-empty catalog an element of it, the first one when no sample can be
\* had; with an empty catalog the built-in minimal template, whose field
\* names are Token1 and Message.
C8_AlwaysATemplate ==
    SuggestDone =>
        /\ suggestion.returned
        /\ COMMON_LOG_PATTERNS # <<>> =>
              /\ \E k \in 1..Len(COMMON_LOG_PATTERNS) :
                     suggestion.def = COMMON_LOG_PATTERNS[k]
              /\ FirstEntryDue => suggestion.def = COMMON_LOG_PATTERNS[1]
        /\ COMMON_LOG_PATTERNS = <<>> =>
              /\ suggestion.def \in {CriticalFallback, MINIMAL_DEFAULT_PATTERN[1]}
              /\ suggestion.def.field_names = <<"Token1", "Message">>

\* the trimmed non-empty lines among the first n raw lines, in file order
StrippedNonEmpty(raw, n) ==
    SelectSeq([i \in 1..n |-> Strip(raw[i])], LAMBDA l : l # <<>>)

FirstK(s, k) == SubSeq(s, 1, IF Len(s) < k THEN Len(s) ELSE k)

\* C15: bounded sample.  From the opening of the file on (idx >= 1), the
\* collected list has at most 5 lines.  Inside the reading loop it is the
\* trimmed non-empty lines among the raw lines read so far and is shorter
\* than 5.  From the end of the loop on, through the scoring of every entry
\* and the return, it is the first 5 trimmed non-empty lines of the file
\* (all of them if fewer), and reading stopped either past the end of the
\* file or on the 5th non-empty line.
C15_BoundedSample ==
    (op = "suggest" /\ idx >= 1) =>
        /\ Len(log_lines_to_check) <= 5
        /\ pc = "read" =>
              /\ log_lines_to_check = StrippedNonEmpty(file.lines, idx - 1)
              /\ Len(log_lines_to_check) < 5
        /\ pc # "read" =>
              /\ log_lines_to_check =
                     FirstK(StrippedNonEmpty(file.lines, Len(file.lines)), 5)
              /\ \/ idx > Len(file.lines) /\ Len(log_lines_to_check) < 5
                 \/ /\ idx <= Len(file.lines)
                    /\ Strip(file.lines[idx]) # <<>>
                    /\ Len(StrippedNonEmpty(file.lines, idx)) = 5

\* every entry of the catalog has been scored against a sample of 5 lines
\* read from a file with a blank line before the 5th non-empty line and
\* more lines after it
C15_Witness ==
    /\ SuggestDone /\ idx >= 1 /\ idx < Len(file.lines)
    /\ Len(log_lines_to_check) = 5
    /\ Len(StrippedNonEmpty(file.lines, idx)) < idx
    /\ Len(COMMON_LOG_PATTERNS) > 1 /\ cat_idx > Len(COMMON_LOG_PATTERNS)

\* C13: uncompilable templates cannot win.  Over a catalog whose entries all
\* have field names, with at least one entry that compiles, and a non-empty
\* sample, the entry returned compiles.
C13_UncompilableCannotWin ==
    (/\ SuggestDone
     /\ log_lines_to_check # <<>>
     /\ \A k \in 1..Len(COMMON_LOG_PATTERNS) : COMMON_LOG_PATTERNS[k].has_field_names
     /\ \E k \in 1..Len(COMMON_LOG_PATTERNS) : EntryCompiles(COMMON_LOG_PATTERNS[k]))
    => EntryCompiles(suggestion.def)

\* C14: zero-score default (A).  Over a non-empty catalog whose entries all
\* have field names, when no entry fully matches a line of the sample the
\* first entry of the catalog is returned.
C14_ZeroScoreDefault ==
    (/\ SuggestDone /\ impl = "A"
     /\ COMMON_LOG_PATTERNS # <<>>
     /\ \A k \in 1..Len(COMMON_LOG_PATTERNS) :
            /\ COMMON_LOG_PATTERNS[k].has_field_names
            /\ EntryScore(COMMON_LOG_PATTERNS[k]) = 0)
    => suggestion.def = COMMON_LOG_PATTERNS[1]

(* ======================== records: properties ========================== *)
\* C12: record completeness.  In every record a finished call returned,
\* each name of FieldOrder is a key of Fields.
C12_RecordComplete ==
    (ParseDone /\ result.success) =>
        \A j \in 1..Len(result.data) :
            \A n \in 1..Len(result.data[j].FieldOrder) :
                result.data[j].FieldOrder[n] \in DOMAIN result.data[j].Fields

\* the field order the template itself gives: its named fields in
\* declaration order, then unnamed_1, unnamed_2, ... one per positional field
DerivedOrder(template) ==
    LET c == parse_compile(template) IN
    c.named_fields \o [j \in 1..Len(c.fixed_fields) |-> "unnamed_" \o ToString(j)]

\* C16: dynamic field order (B).  The record of every line the template
\* parsed has the template's derived order as FieldOrder (so the caller's
\* field_names only when it is that list), and the keys of Fields are the
\* names of FieldOrder.
C16_DynamicFieldOrder ==
    (op = "parse" /\ impl = "B") =>
        \A j \in 1..Len(parsed_entries) :
            parse_parse(log_pattern, Strip(file.lines[entry_src[j]])).matched =>
                /\ parsed_entries[j].FieldOrder = DerivedOrder(log_pattern)
                /\ DOMAIN parsed_entries[j].Fields =
                       {parsed_entries[j].FieldOrder[n] :
                            n \in 1..Len(parsed_entries[j].FieldOrder)}

\* raw line i takes the fallback path of a best-effort run.  A: no match,
\* fewer groups than field names, or a needed group that took no part in
\* the match.  B: the template does not parse the whole line.
FallbackLine(i) ==
    LET line == Strip(file.lines[i]) IN
    IF impl = "A"
    THEN LET regex == re_compile(sanitize_pattern(log_pattern))
             match == re_match(regex, line)
         IN \/ ~match.ok
            \/ regex.groups < Len(field_names)
            \/ \E g \in 1..Len(field_names) : ~match.caps[g].some
    ELSE ~parse_parse(log_pattern, line).matched

\* C17: uniform fallback shape.  In a best-effort run every fallback record
\* of B is {FullLine: "[UNPARSED] " + trimmed line} with FieldOrder
\* [FullLine], every fallback record of A has the caller's field_names as
\* FieldOrder, and any two fallback records of the run have the same
\* FieldOrder and the same keys in Fields.
C17_UniformFallback ==
    (op = "parse" /\ is_best_effort) =>
        /\ \A j \in 1..Len(parsed_entries) :
               FallbackLine(entry_src[j]) =>
                   IF impl = "B"
                   THEN /\ parsed_entries[j].FieldOrder = <<"FullLine">>
                        /\ parsed_entries[j].Fields =
                               ("FullLine" :> (Lit("[UNPARSED] ") \o
                                                 Strip(file.lines[entry_src[j]])))
                   ELSE parsed_entries[j].FieldOrder = field_names
        /\ \A j, k \in 1..Len(parsed_entries) :
               (FallbackLine(entry_src[j]) /\ FallbackLine(entry_src[k])) =>
                   /\ parsed_entries[j].FieldOrder = parsed_entries[k].FieldOrder
                   /\ DOMAIN parsed_entries[j].Fields = DOMAIN parsed_entries[k].Fields

\* a best-effort run of B returned two fallback records of different lines
\* and a matched record, for a caller with two field names
C17_Witness ==
    /\ ParseDone /\ is_best_effort /\ impl = "B" /\ result.success
    /\ Len(field_names) = 2
    /\ \E j, k, m \in 1..Len(result.data) :
           /\ FallbackLine(entry_src[j]) /\ FallbackLine(entry_src[k])
           /\ file.lines[entry_src[j]] # file.lines[entry_src[k]]
           /\ ~FallbackLine(entry_src[m])

(* ================== the two disciplines: properties ===================== *)
\* the best-effort call that followed a strict call on the same inputs is over
BothDone == ParseDone /\ is_best_effort /\ strict_run.done

\* the originating lines of the records a call returned; a failed call
\* returns no record
RecordLines(res, src) ==
    IF res.success THEN {src[j] : j \in 1..Len(res.data)} ELSE {}

\* C11: strict subset.  The originating lines of the records of the strict
\* call are among the originating lines of the records of the best-effort
\* call on the same file, template and field_names.
C11_StrictSubset ==
    BothDone =>
        RecordLines(strict_run.result, strict_run.entry_src) \subseteq
            RecordLines(result, entry_src)

\* the strict call returned records, and the best-effort call returned
\* records of lines the strict call dropped
C11_Witness ==
    /\ BothDone /\ strict_run.result.success /\ result.success
    /\ RecordLines(strict_run.result, strict_run.entry_src) # {}
    /\ RecordLines(strict_run.result, strict_run.entry_src) #
           RecordLines(result, entry_src)

\* C18: discipline-independent content of matched records.  For every
\* record of the strict call, the best-effort call on the same inputs
\* returned a record of the same line with the same Fields and FieldOrder.
C18_SameContent ==
    BothDone =>
        \A j \in 1..Len(strict_run.result.data) :
            \E k \in 1..Len(result.data) :
                /\ entry_src[k] = strict_run.entry_src[j]
                /\ result.data[k].Fields = strict_run.result.data[j].Fields
                /\ result.data[k].FieldOrder = strict_run.result.data[j].FieldOrder

\* the strict call of A returned a record with two extracted values, and
\* the best-effort call a fallback record besides
C18_Witness ==
    /\ BothDone /\ impl = "A"
    /\ \E j \in 1..Len(strict_run.result.data) :
           /\ strict_run.result.data[j].FieldOrder = field_names
           /\ Cardinality(DOMAIN strict_run.result.data[j].Fields) = 2
    /\ \E k \in 1..Len(result.data) : FallbackLine(entry_src[k])

====
